---- MODULE Spec2Model ----
(***************************************************************************)
(* A model of YourAgent (src/src/YourAgent.py): the per-tick decision of a *)
(* warehouse drive.  The agent keeps two booleans across ticks             *)
(* (need_to_find_target_pod, target_pod_acquired); every tick the          *)
(* simulator calls get_next_move with a snapshot (sensor_data) and gets    *)
(* one DriveMove back.                                                     *)
(*                                                                         *)
(* Positions are pairs <<x, y>>.  The Python lists drive_locs and pod_locs *)
(* are only ever used through "[x, y] in list", so they are modelled as    *)
(* sets of pairs; the goal list is iterated in order and is a sequence.    *)
(***************************************************************************)
EXTENDS Integers, Sequences, FiniteSets

VARIABLES need_to_find_target_pod, target_pod_acquired, sensor_data, result, pc, lifts

vars == <<need_to_find_target_pod, target_pod_acquired, sensor_data, result, pc, lifts>>

(***************************************************************************)
(* Bounds of the model.                                                    *)
(***************************************************************************)
\* goals lie at most this far from the player on each axis
MaxOffset == 2
\* longest goal list the simulator hands over
MaxGoals == 2
\* most pods placed on the tiles next to the player
MaxPods == 1
\* the ghost counter of LIFT_POD results saturates here
MaxLifts == 2

(***************************************************************************)
(* DriveMove (src.Constants, imported at line 3).  None is what a Python   *)
(* function returns when it falls off its end; DriveMove members are       *)
(* truthy, so "if cmd:" tests cmd against None.                            *)
(***************************************************************************)
None == "None"

Directions == {"UP", "DOWN", "LEFT", "RIGHT"}

DriveMove == Directions \cup {"NONE", "LIFT_POD", "DROP_POD"}

Abs(n) == IF n < 0 THEN -n ELSE n

(***************************************************************************)
(* The helpers of YourAgent, lines 139-175.                                *)
(***************************************************************************)
get_xy_distance(x1, y1, x2, y2) == <<x2 - x1, y2 - y1>>

\* (x**2 + y**2) ** 0.5.  The value is only ever compared with another such
\* value (line 95) or with the sentinel -1 (line 91).  The square root of a
\* non-negative integer is never -1, and for the small integers of this
\* model the floating-point root is strictly monotone, so the root is
\* represented by its radicand.
get_raw_distance(x, y) == x * x + y * y

\* mutant: the coordinates are looked up the wrong way round
drive_at_loc_swapped(drive_locs, x, y) == <<y, x>> \in drive_locs

drive_at_loc(drive_locs, x, y) == <<x, y>> \in drive_locs

pod_at_loc(pod_locs, x, y) == <<x, y>> \in pod_locs

\* mutant: pods block whatever the mode
obstacle_at_loc_any_mode(x, y, drive_locs, pod_locs, is_advanced) ==
    IF drive_at_loc(drive_locs, x, y) THEN TRUE
    ELSE IF pod_at_loc(pod_locs, x, y) THEN TRUE
    ELSE FALSE

\* Falls off the end (None, falsy) when the tile is free.
obstacle_at_loc(x, y, drive_locs, pod_locs, is_advanced) ==
    IF drive_at_loc(drive_locs, x, y) THEN TRUE
    ELSE IF is_advanced /\ pod_at_loc(pod_locs, x, y) THEN TRUE
    ELSE FALSE

\* self.need_to_find_target_pod is passed as need.
move_to_x_target(x_pos, y_pos, target_x, drive_locs, pod_locs, need) ==
    IF target_x > 0 /\ ~obstacle_at_loc(x_pos + 1, y_pos, drive_locs, pod_locs, need)
    THEN "RIGHT"
    ELSE IF target_x < 0 /\ ~obstacle_at_loc(x_pos - 1, y_pos, drive_locs, pod_locs, need)
    THEN "LEFT"
    ELSE None

\* mutant: the two vertical moves are exchanged
move_to_y_target_flipped(x_pos, y_pos, target_y, drive_locs, pod_locs, need) ==
    IF target_y > 0 /\ ~obstacle_at_loc(x_pos, y_pos + 1, drive_locs, pod_locs, need)
    THEN "DOWN"
    ELSE IF target_y < 0 /\ ~obstacle_at_loc(x_pos, y_pos - 1, drive_locs, pod_locs, need)
    THEN "UP"
    ELSE None

move_to_y_target(x_pos, y_pos, target_y, drive_locs, pod_locs, need) ==
    IF target_y > 0 /\ ~obstacle_at_loc(x_pos, y_pos + 1, drive_locs, pod_locs, need)
    THEN "UP"
    ELSE IF target_y < 0 /\ ~obstacle_at_loc(x_pos, y_pos - 1, drive_locs, pod_locs, need)
    THEN "DOWN"
    ELSE None

(***************************************************************************)
(* get_next_move, lines 83-98: the loop over the goals.  The accumulator   *)
(* is <<shortest_dist, goal_x, goal_y>>, -1 everywhere before the loop.    *)
(***************************************************************************)
\* mutant: >= for >, so that the last of several nearest goals wins
nearest_goal_step_last(acc, x_pos, y_pos, goal) ==
    LET d    == get_xy_distance(x_pos, y_pos, goal[1], goal[2])
        dist == get_raw_distance(d[1], d[2])
    IN  IF acc[1] = -1 THEN <<dist, d[1], d[2]>>
        ELSE IF acc[1] >= dist THEN <<dist, d[1], d[2]>>
        ELSE acc

nearest_goal_step(acc, x_pos, y_pos, goal) ==
    LET d    == get_xy_distance(x_pos, y_pos, goal[1], goal[2])
        dist == get_raw_distance(d[1], d[2])
    IN  IF acc[1] = -1 THEN <<dist, d[1], d[2]>>
        ELSE IF acc[1] > dist THEN <<dist, d[1], d[2]>>
        ELSE acc

RECURSIVE nearest_goal_loop(_, _, _, _, _)
nearest_goal_loop(acc, x_pos, y_pos, goals, i) ==
    IF i > Len(goals) THEN acc
    ELSE nearest_goal_loop(nearest_goal_step(acc, x_pos, y_pos, goals[i]),
                           x_pos, y_pos, goals, i + 1)

\* <<goal_x, goal_y>> after the loop.
nearest_goal(x_pos, y_pos, goals) ==
    LET acc == nearest_goal_loop(<<-1, -1, -1>>, x_pos, y_pos, goals, 1)
    IN  <<acc[2], acc[3]>>

(***************************************************************************)
(* get_next_move, lines 100-113: the axis attempts.                        *)
(***************************************************************************)
\* mutant: >= for >, so that x is tried first on a tie
axis_moves_x_on_tie(x_pos, y_pos, goal_x, goal_y, drive_locs, pod_locs, need) ==
    LET cmd_x == move_to_x_target(x_pos, y_pos, goal_x, drive_locs, pod_locs, need)
        cmd_y == move_to_y_target(x_pos, y_pos, goal_y, drive_locs, pod_locs, need)
    IN  IF Abs(goal_x) >= Abs(goal_y) /\ cmd_x # None THEN cmd_x
        ELSE IF Abs(goal_x) >= Abs(goal_y) /\ cmd_y # None THEN cmd_y
        ELSE IF cmd_y # None THEN cmd_y
        ELSE IF cmd_x # None THEN cmd_x
        ELSE None

axis_moves(x_pos, y_pos, goal_x, goal_y, drive_locs, pod_locs, need) ==
    LET cmd_x == move_to_x_target(x_pos, y_pos, goal_x, drive_locs, pod_locs, need)
        cmd_y == move_to_y_target(x_pos, y_pos, goal_y, drive_locs, pod_locs, need)
    IN  IF Abs(goal_x) > Abs(goal_y) /\ cmd_x # None THEN cmd_x
        ELSE IF Abs(goal_x) > Abs(goal_y) /\ cmd_y # None THEN cmd_y
        ELSE IF cmd_y # None THEN cmd_y
        ELSE IF cmd_x # None THEN cmd_x
        ELSE None

(***************************************************************************)
(* get_next_move, lines 115-137: moving out of the way, then NONE.         *)
(***************************************************************************)
\* mutant: "elif goal_y != 0", the horizontal pair only when goal_x is 0
sidestep_elif(x_pos, y_pos, goal_x, goal_y, drive_locs, pod_locs, need) ==
    IF goal_x # 0 /\ ~obstacle_at_loc(x_pos, y_pos + 1, drive_locs, pod_locs, need)
    THEN "UP"
    ELSE IF goal_x # 0 /\ ~obstacle_at_loc(x_pos, y_pos - 1, drive_locs, pod_locs, need)
    THEN "DOWN"
    ELSE IF goal_x = 0 /\ goal_y # 0
            /\ ~obstacle_at_loc(x_pos + 1, y_pos, drive_locs, pod_locs, need)
    THEN "RIGHT"
    ELSE IF goal_x = 0 /\ goal_y # 0
            /\ ~obstacle_at_loc(x_pos - 1, y_pos, drive_locs, pod_locs, need)
    THEN "LEFT"
    ELSE "NONE"

\* mutant: the step to the left is never tried
sidestep_no_left(x_pos, y_pos, goal_x, goal_y, drive_locs, pod_locs, need) ==
    IF goal_x # 0 /\ ~obstacle_at_loc(x_pos, y_pos + 1, drive_locs, pod_locs, need)
    THEN "UP"
    ELSE IF goal_x # 0 /\ ~obstacle_at_loc(x_pos, y_pos - 1, drive_locs, pod_locs, need)
    THEN "DOWN"
    ELSE IF goal_y # 0 /\ ~obstacle_at_loc(x_pos + 1, y_pos, drive_locs, pod_locs, need)
    THEN "RIGHT"
    ELSE "NONE"

sidestep(x_pos, y_pos, goal_x, goal_y, drive_locs, pod_locs, need) ==
    IF goal_x # 0 /\ ~obstacle_at_loc(x_pos, y_pos + 1, drive_locs, pod_locs, need)
    THEN "UP"
    ELSE IF goal_x # 0 /\ ~obstacle_at_loc(x_pos, y_pos - 1, drive_locs, pod_locs, need)
    THEN "DOWN"
    ELSE IF goal_y # 0 /\ ~obstacle_at_loc(x_pos + 1, y_pos, drive_locs, pod_locs, need)
    THEN "RIGHT"
    ELSE IF goal_y # 0 /\ ~obstacle_at_loc(x_pos - 1, y_pos, drive_locs, pod_locs, need)
    THEN "LEFT"
    ELSE "NONE"

\* get_next_move from line 83 to its end.
goal_seeking(x_pos, y_pos, goals, drive_locs, pod_locs, need) ==
    LET g   == nearest_goal(x_pos, y_pos, goals)
        cmd == axis_moves(x_pos, y_pos, g[1], g[2], drive_locs, pod_locs, need)
    IN  IF cmd # None THEN cmd
        ELSE sidestep(x_pos, y_pos, g[1], g[2], drive_locs, pod_locs, need)

(***************************************************************************)
(* get_next_move, lines 73-81: the step toward the target pod.  Only       *)
(* drive_at_loc is consulted here.  None: no return was reached.           *)
(***************************************************************************)
pod_approach(x_pos, y_pos, dist_x, dist_y, drive_locs) ==
    IF dist_x > 0 /\ ~drive_at_loc(drive_locs, x_pos + 1, y_pos) THEN "RIGHT"
    ELSE IF dist_x < 0 /\ ~drive_at_loc(drive_locs, x_pos - 1, y_pos) THEN "LEFT"
    ELSE IF dist_y > 0 /\ ~drive_at_loc(drive_locs, x_pos, y_pos + 1) THEN "UP"
    ELSE IF dist_y < 0 /\ ~drive_at_loc(drive_locs, x_pos, y_pos - 1) THEN "DOWN"
    ELSE None

\* mutant: the pod is lifted whenever the player stands on it
lift_condition_again(acquired, dist_x, dist_y) ==
    dist_x = 0 /\ dist_y = 0

\* Lines 69-71: the condition under which the pod is lifted.
lift_condition(acquired, dist_x, dist_y) ==
    dist_x = 0 /\ dist_y = 0 /\ ~acquired

\* mutant: a blocked approach ends the tick with NONE until the pod is lifted
get_next_move_wait(need, acquired, sd) ==
    LET x_pos == sd.player[1]
        y_pos == sd.player[2]
        d     == get_xy_distance(x_pos, y_pos, sd.target_pod[1], sd.target_pod[2])
        cmd   == pod_approach(x_pos, y_pos, d[1], d[2], sd.drives)
        seek  == goal_seeking(x_pos, y_pos, sd.goals, sd.drives, sd.pods, need)
    IN  IF need /\ lift_condition(acquired, d[1], d[2])
        THEN [move |-> "LIFT_POD", acquired |-> TRUE]
        ELSE IF need /\ cmd # None
        THEN [move |-> cmd, acquired |-> acquired]
        ELSE IF need /\ ~acquired
        THEN [move |-> "NONE", acquired |-> acquired]
        ELSE [move |-> seek, acquired |-> acquired]

(***************************************************************************)
(* get_next_move, lines 54-137, as a function of the agent's two fields    *)
(* and the snapshot: the move returned and target_pod_acquired afterwards. *)
(***************************************************************************)
get_next_move(need, acquired, sd) ==
    LET x_pos == sd.player[1]
        y_pos == sd.player[2]
        d     == get_xy_distance(x_pos, y_pos, sd.target_pod[1], sd.target_pod[2])
        cmd   == pod_approach(x_pos, y_pos, d[1], d[2], sd.drives)
        seek  == goal_seeking(x_pos, y_pos, sd.goals, sd.drives, sd.pods, need)
    IN  IF need /\ lift_condition(acquired, d[1], d[2])
        THEN [move |-> "LIFT_POD", acquired |-> TRUE]
        ELSE IF need /\ cmd # None
        THEN [move |-> cmd, acquired |-> acquired]
        ELSE [move |-> seek, acquired |-> acquired]

(***************************************************************************)
(* The snapshots the simulator hands over (the sensor_data dict, lines     *)
(* 29-39 and 54-58).  get_next_move looks at the four tiles next to the    *)
(* player and nowhere else, so drives and pods are placed on those tiles.  *)
(* Two families are enumerated: any goal list of up to MaxGoals goals with *)
(* clear surroundings and the target pod under the player, and at most one *)
(* goal with any surroundings and the target pod anywhere around.          *)
(***************************************************************************)
Shift(p, o) == <<p[1] + o[1], p[2] + o[2]>>

Offsets == (-MaxOffset .. MaxOffset) \X (-MaxOffset .. MaxOffset)

PlayerTiles == {<<0, 0>>, <<3, -2>>}

Neighbours(p) == {Shift(p, o) : o \in {<<1, 0>>, <<-1, 0>>, <<0, 1>>, <<0, -1>>}}

Around(p) == {Shift(p, o) : o \in (-1 .. 1) \X (-1 .. 1)}

GoalLists(p, n) == UNION {[1 .. k -> {Shift(p, o) : o \in Offsets}] : k \in 0 .. n}

PodSets(p) == {q \in SUBSET Neighbours(p) : Cardinality(q) <= MaxPods}

GoalFamily(p) ==
    [player : {p}, goals : GoalLists(p, MaxGoals), drives : {{}}, pods : {{}},
     target_pod : {p}]

ObstacleFamily(p) ==
    [player : {p}, goals : GoalLists(p, 1), drives : SUBSET Neighbours(p),
     pods : PodSets(p), target_pod : Around(p)]

Snapshots == UNION {GoalFamily(p) \cup ObstacleFamily(p) : p \in PlayerTiles}

\* no call is in progress
NoData == [player |-> <<0, 0>>, goals |-> <<>>, drives |-> {}, pods |-> {},
           target_pod |-> <<0, 0>>]

(***************************************************************************)
(* The state machine.  pc is the position of the simulator's loop: "idle"  *)
(* between ticks, "called" when get_next_move has been entered with        *)
(* sensor_data, "returned" when it has returned result.  lifts counts the  *)
(* LIFT_POD results (a history variable, saturating at MaxLifts).          *)
(***************************************************************************)
\* __init__, lines 17-19, for either value of is_advanced_mode
Init ==
    /\ need_to_find_target_pod \in BOOLEAN
    /\ target_pod_acquired = FALSE
    /\ sensor_data = NoData
    /\ result = None
    /\ pc = "idle"
    /\ lifts = 0

\* the simulator calls get_next_move(sensor_data)
SimulatorCall ==
    /\ pc = "idle"
    /\ sensor_data' \in Snapshots
    /\ pc' = "called"
    /\ UNCHANGED <<need_to_find_target_pod, target_pod_acquired, result, lifts>>

\* the body of get_next_move up to its return
GetNextMove ==
    /\ pc = "called"
    /\ LET r == get_next_move(need_to_find_target_pod, target_pod_acquired, sensor_data)
       IN  /\ result' = r.move
           /\ target_pod_acquired' = r.acquired
           /\ lifts' = IF r.move = "LIFT_POD" /\ lifts < MaxLifts THEN lifts + 1 ELSE lifts
    /\ pc' = "returned"
    /\ UNCHANGED <<need_to_find_target_pod, sensor_data>>

\* the simulator takes the move; the call's snapshot is gone
SimulatorReturn ==
    /\ pc = "returned"
    /\ sensor_data' = NoData
    /\ result' = None
    /\ pc' = "idle"
    /\ UNCHANGED <<need_to_find_target_pod, target_pod_acquired, lifts>>

Next == SimulatorCall \/ GetNextMove \/ SimulatorReturn

Spec == Init /\ [][Next]_vars

TypeOK ==
    /\ need_to_find_target_pod \in BOOLEAN
    /\ target_pod_acquired \in BOOLEAN
    /\ result \in DriveMove \cup {None}
    /\ pc \in {"idle", "called", "returned"}
    /\ lifts \in 0 .. MaxLifts

(***************************************************************************)
(* The closed loop of one basic-mode game on an empty floor: the goals are *)
(* fixed, no other drive is about, and the simulator moves the player by   *)
(* the move it was given before it calls again.                            *)
(***************************************************************************)
\* DriveMove as documented at lines 43-47: UP is +y, DOWN -y, RIGHT +x, LEFT -x
move_delta(m) ==
    IF m = "UP" THEN <<0, 1>>
    ELSE IF m = "DOWN" THEN <<0, -1>>
    ELSE IF m = "RIGHT" THEN <<1, 0>>
    ELSE IF m = "LEFT" THEN <<-1, 0>>
    ELSE <<0, 0>>

\* the goals lie on the axes through the start tile <<0, 0>> or on its diagonal
SimTiles ==
    {t \in (-1 .. MaxOffset + 1) \X (-1 .. MaxOffset) : t[1] = 0 \/ t[2] = 0 \/ t[1] = t[2]}

SimSnapshots ==
    [player : {<<0, 0>>}, goals : UNION {[1 .. k -> SimTiles] : k \in 1 .. MaxGoals},
     drives : {{}}, pods : {{}}, target_pod : {<<0, 0>>}]

\* __init__, lines 17-19, with is_advanced_mode False
SimInit ==
    /\ need_to_find_target_pod = FALSE
    /\ target_pod_acquired = FALSE
    /\ sensor_data = NoData
    /\ result = None
    /\ pc = "idle"
    /\ lifts = 0

\* the game starts: the first call of get_next_move
SimulatorStart ==
    /\ pc = "idle"
    /\ sensor_data' \in SimSnapshots
    /\ pc' = "called"
    /\ UNCHANGED <<need_to_find_target_pod, target_pod_acquired, result, lifts>>

\* the simulator applies the move and calls get_next_move again
SimulatorMove ==
    /\ pc = "returned"
    /\ sensor_data' = [sensor_data EXCEPT !.player = Shift(@, move_delta(result))]
    /\ result' = None
    /\ pc' = "called"
    /\ UNCHANGED <<need_to_find_target_pod, target_pod_acquired, lifts>>

SimNext == SimulatorStart \/ GetNextMove \/ SimulatorMove

\* the simulator calls every loop, and a call returns
SimSpec ==
    /\ SimInit
    /\ [][SimNext]_vars
    /\ WF_vars(SimulatorStart)
    /\ WF_vars(GetNextMove)
    /\ WF_vars(SimulatorMove)

(***************************************************************************)
(* Vocabulary of the properties, stated on the snapshot of the call.       *)
(***************************************************************************)
Player == sensor_data.player

Goals == sensor_data.goals

Drives == sensor_data.drives

Pods == sensor_data.pods

TargetPod == sensor_data.target_pod

Returned == pc = "returned"

Up == Shift(Player, <<0, 1>>)

Down == Shift(Player, <<0, -1>>)

Right == Shift(Player, <<1, 0>>)

Left == Shift(Player, <<-1, 0>>)

\* the tile the returned move leads to
Dest(m) == Shift(Player, move_delta(m))

Sgn(n) == IF n > 0 THEN 1 ELSE IF n < 0 THEN -1 ELSE 0

OffsetTo(p, t) == <<t[1] - p[1], t[2] - p[2]>>

Norm2(o) == o[1] * o[1] + o[2] * o[2]

Manhattan(o) == Abs(o[1]) + Abs(o[2])

\* the index of the first goal among those nearest (Euclidean) to tile p
FirstNearest(p, goals) ==
    CHOOSE i \in 1 .. Len(goals) :
        /\ \A j \in 1 .. Len(goals) : Norm2(OffsetTo(p, goals[i])) <= Norm2(OffsetTo(p, goals[j]))
        /\ \A j \in 1 .. (i - 1) : Norm2(OffsetTo(p, goals[j])) > Norm2(OffsetTo(p, goals[i]))

\* the offset from the player to that goal
GoalOffset == OffsetTo(Player, Goals[FirstNearest(Player, Goals)])

PodOffset == OffsetTo(Player, TargetPod)

\* the Obstacle Oracle of the specification
Occupied(t) == t \in Drives \/ (need_to_find_target_pod /\ t \in Pods)

XMove(o) == IF o[1] > 0 THEN "RIGHT" ELSE "LEFT"

YMove(o) == IF o[2] > 0 THEN "UP" ELSE "DOWN"

\* a move toward the goal along x (along y) is possible
XOpen(o) == o[1] # 0 /\ ~Occupied(Shift(Player, <<Sgn(o[1]), 0>>))

YOpen(o) == o[2] # 0 /\ ~Occupied(Shift(Player, <<0, Sgn(o[2])>>))

\* on every axis with nonzero pod offset a drive stands on the tile toward the pod
ApproachBlocked ==
    /\ PodOffset[1] # 0 => Shift(Player, <<Sgn(PodOffset[1]), 0>>) \in Drives
    /\ PodOffset[2] # 0 => Shift(Player, <<0, Sgn(PodOffset[2])>>) \in Drives

\* the returned move was decided by goal-seeking (lines 83-137)
GoalSought ==
    /\ Returned
    /\ Len(Goals) > 0
    /\ ~need_to_find_target_pod \/ (result # "LIFT_POD" /\ ApproachBlocked)

(***************************************************************************)
(* C3: the closed loop on an empty floor.                                  *)
(***************************************************************************)
OnGoal(p) == \E i \in 1 .. Len(Goals) : Goals[i] = p

\* distance from tile p to the goal nearest to it, in each metric
MinNorm2(p) == Norm2(OffsetTo(p, Goals[FirstNearest(p, Goals)]))

MinManhattan(p) ==
    CHOOSE d \in {Manhattan(OffsetTo(p, Goals[i])) : i \in 1 .. Len(Goals)} :
        \A i \in 1 .. Len(Goals) : d <= Manhattan(OffsetTo(p, Goals[i]))

\* Manhattan distance from tile p to the goal the agent selects there
SelectedManhattan(p) == Manhattan(OffsetTo(p, Goals[FirstNearest(p, Goals)]))

\* a call returns in this step
Returns == pc = "called" /\ pc' = "returned"

C3_StepOriginal ==
    Returns =>
        IF OnGoal(Player) THEN result' = "NONE"
        ELSE /\ result' \in Directions
             /\ MinNorm2(Dest(result')) < MinNorm2(Player)
             /\ MinManhattan(Dest(result')) < MinManhattan(Player)

C3_StepAmended ==
    Returns =>
        IF OnGoal(Player) THEN result' = "NONE"
        ELSE /\ result' \in Directions
             /\ MinNorm2(Dest(result')) < MinNorm2(Player)
             /\ SelectedManhattan(Dest(result')) < SelectedManhattan(Player)

\* C3 as claimed: while the player is off every goal, each returned move is
\* directional and strictly decreases both the Euclidean and the Manhattan
\* distance to the nearest goal; the player ends on a goal and NONE is
\* returned from then on.
C3_Original == [][C3_StepOriginal]_vars /\ <>[]OnGoal(Player)

\* C3 amended: while the player is off every goal, each returned move is
\* directional and strictly decreases the Euclidean distance to the nearest
\* goal and the Manhattan distance to the goal the agent selects (the first
\* Euclidean-nearest one); the player ends on a goal and NONE is returned
\* from then on.
C3_Amended == [][C3_StepAmended]_vars /\ <>[]OnGoal(Player)

\* the player walked to the second of two goals and was told to stay
C3_Witness ==
    /\ Returned
    /\ result = "NONE"
    /\ Len(Goals) = 2
    /\ Player = Goals[2]
    /\ Player # Goals[1]
    /\ Player # <<0, 0>>

(***************************************************************************)
(* The properties of a single call, and of a sequence of calls.            *)
(***************************************************************************)
\* what goal-seeking returns on the snapshot of the call
GoalSeekingMove ==
    goal_seeking(Player[1], Player[2], Goals, Drives, Pods, need_to_find_target_pod)

\* C1: a returned UP, DOWN, LEFT or RIGHT never leads onto a tile that holds a
\* drive, in either mode and whichever branch returned it.
C1_NeverOntoDrive ==
    Returned /\ result \in Directions => Dest(result) \notin Drives

\* the only neighbouring tile without a drive was taken
C1_Witness ==
    /\ Returned
    /\ result \in Directions
    /\ Cardinality(Drives) = 3
    /\ Neighbours(Player) \ Drives = {Dest(result)}

C2_Step ==
    /\ Returns =>
        /\ result' = "LIFT_POD" <=>
              (need_to_find_target_pod /\ ~target_pod_acquired /\ Player = TargetPod)
        /\ result' = "LIFT_POD" => target_pod_acquired'
    /\ target_pod_acquired => target_pod_acquired'

\* C2: LIFT_POD is returned exactly on a tick of an advanced-mode agent that
\* has not acquired the pod and stands on the target pod's tile; that tick
\* sets target_pod_acquired, the flag never becomes false again, and over
\* any sequence of calls LIFT_POD is returned at most once.
C2_LiftOnce == [][C2_Step]_vars /\ [](lifts <= 1)

\* after the lift, a later call on the pod's tile did not lift again
C2_Witness ==
    /\ Returned
    /\ lifts = 1
    /\ need_to_find_target_pod
    /\ Player = TargetPod
    /\ result # "LIFT_POD"

\* C4: with a non-empty goal list the offset goal-seeking works with is the
\* offset to a goal of minimal Euclidean distance, the first such goal of the
\* list, and the move of a goal-seeking tick is the one that offset yields.
C4_NearestFirstGoal ==
    Returned /\ Len(Goals) > 0 =>
        /\ nearest_goal(Player[1], Player[2], Goals) = GoalOffset
        /\ GoalSought =>
              result =
                LET cmd == axis_moves(Player[1], Player[2], GoalOffset[1], GoalOffset[2],
                                      Drives, Pods, need_to_find_target_pod)
                IN  IF cmd # None THEN cmd
                    ELSE sidestep(Player[1], Player[2], GoalOffset[1], GoalOffset[2],
                                  Drives, Pods, need_to_find_target_pod)

\* two different goals equally near, and the move heads for the first
C4_Witness ==
    /\ GoalSought
    /\ Len(Goals) = 2
    /\ Norm2(OffsetTo(Player, Goals[1])) = Norm2(OffsetTo(Player, Goals[2]))
    /\ Abs(OffsetTo(Player, Goals[1])[1]) < Abs(OffsetTo(Player, Goals[1])[2])
    /\ Abs(OffsetTo(Player, Goals[2])[1]) > Abs(OffsetTo(Player, Goals[2])[2])
    /\ result = YMove(OffsetTo(Player, Goals[1]))

\* C5: the dominant axis is x when |dx| > |dy| and y otherwise; the move
\* along the dominant axis is returned when its offset is nonzero and its
\* tile toward the goal is free, otherwise the move along the other axis
\* when that one's offset is nonzero and its tile is free; an axis with
\* offset zero yields no move from the two attempts.
C5_DominantAxis ==
    GoalSought =>
        LET o       == GoalOffset
            xdom    == Abs(o[1]) > Abs(o[2])
            domOpen == IF xdom THEN XOpen(o) ELSE YOpen(o)
            othOpen == IF xdom THEN YOpen(o) ELSE XOpen(o)
            domMove == IF xdom THEN XMove(o) ELSE YMove(o)
            othMove == IF xdom THEN YMove(o) ELSE XMove(o)
            cmd     == axis_moves(Player[1], Player[2], o[1], o[2], Drives, Pods,
                                  need_to_find_target_pod)
        IN  /\ domOpen => result = domMove
            /\ ~domOpen /\ othOpen => result = othMove
            /\ o[1] = 0 => cmd \notin {"LEFT", "RIGHT"}
            /\ o[2] = 0 => cmd \notin {"UP", "DOWN"}

\* x dominates, its tile is taken, and the move along y is returned
C5_Witness ==
    /\ GoalSought
    /\ Abs(GoalOffset[1]) > Abs(GoalOffset[2])
    /\ GoalOffset[2] # 0
    /\ ~XOpen(GoalOffset)
    /\ result = YMove(GoalOffset)

\* every tile goal-seeking would try for offset o is occupied
AllBlocked(o) ==
    /\ o[1] # 0 => ~XOpen(o) /\ Occupied(Up) /\ Occupied(Down)
    /\ o[2] # 0 => ~YOpen(o) /\ Occupied(Right) /\ Occupied(Left)

\* C6: in goal-seeking (basic mode, or advanced mode with the pod acquired
\* and the player on the target pod's tile) with a non-empty goal list, NONE
\* is returned when the nearest-goal offset is (0,0) or when the tile toward
\* the goal on every axis with nonzero offset and every sidestep tile tried
\* is occupied; in every other case a directional move is returned.
C6_NoneIffBlocked ==
    /\ Returned
    /\ Len(Goals) > 0
    /\ \/ ~need_to_find_target_pod
       \/ target_pod_acquired /\ result # "LIFT_POD" /\ Player = TargetPod
    => IF AllBlocked(GoalOffset) THEN result = "NONE" ELSE result \in Directions

\* boxed in on all four sides while carrying the pod toward a diagonal goal
C6_Witness ==
    /\ Returned
    /\ Len(Goals) > 0
    /\ need_to_find_target_pod
    /\ target_pod_acquired
    /\ Player = TargetPod
    /\ GoalOffset[1] # 0
    /\ GoalOffset[2] # 0
    /\ result = "NONE"

\* in basic mode the pods of the snapshot make no difference to the move
PodsIgnored ==
    result = get_next_move(need_to_find_target_pod, target_pod_acquired,
                           [sensor_data EXCEPT !.pods = {}]).move

\* C7 as claimed: in advanced mode no returned directional move, the approach
\* to the target pod included, leads onto a tile that holds a pod; in basic
\* mode a pod on the candidate tile does not prevent the move.
C7_Original ==
    Returned =>
        /\ need_to_find_target_pod /\ result \in Directions => Dest(result) \notin Pods
        /\ ~need_to_find_target_pod => PodsIgnored

\* C7 amended: in advanced mode no directional move returned by goal-seeking
\* (axis attempts and sidestep) leads onto a tile that holds a pod, while a
\* move of the target-pod approach may; in basic mode a pod on the candidate
\* tile does not prevent the move.
C7_Amended ==
    Returned =>
        /\ need_to_find_target_pod /\ ApproachBlocked /\ result \in Directions
              => Dest(result) \notin Pods
        /\ ~need_to_find_target_pod => PodsIgnored

\* advanced mode: a pod alone holds the tile toward the goal, and goal-seeking
\* returns another move
C7_Witness ==
    /\ GoalSought
    /\ need_to_find_target_pod
    /\ GoalOffset[2] # 0
    /\ GoalOffset[1] = 0
    /\ Shift(Player, <<0, Sgn(GoalOffset[2])>>) \in Pods \ Drives
    /\ result \in {"LEFT", "RIGHT"}

\* C8: in advanced mode, on every tick after target_pod_acquired has become
\* true, the returned move is the move of goal-seeking on that snapshot,
\* whatever the snapshot's target-pod location.
C8_GoalSeekingOnceAcquired ==
    [][Returns /\ need_to_find_target_pod /\ target_pod_acquired
          => result' = GoalSeekingMove]_vars

\* the result of the sidestep for offset o, as claimed and as amended
SidestepOriginal(o) ==
    IF o[1] # 0
    THEN IF ~Occupied(Up) THEN "UP" ELSE IF ~Occupied(Down) THEN "DOWN" ELSE "NONE"
    ELSE IF o[2] # 0
    THEN IF ~Occupied(Right) THEN "RIGHT" ELSE IF ~Occupied(Left) THEN "LEFT" ELSE "NONE"
    ELSE "NONE"

SidestepAmended(o) ==
    IF o[1] # 0 /\ ~Occupied(Up) THEN "UP"
    ELSE IF o[1] # 0 /\ ~Occupied(Down) THEN "DOWN"
    ELSE IF o[2] # 0 /\ ~Occupied(Right) THEN "RIGHT"
    ELSE IF o[2] # 0 /\ ~Occupied(Left) THEN "LEFT"
    ELSE "NONE"

\* C9 as claimed: when both axis attempts yield no move and the x-offset is
\* nonzero the result is UP, else DOWN, else NONE, and RIGHT/LEFT are not
\* tried; they are tried only when the x-offset is zero and the y-offset is
\* not.
C9_Original ==
    GoalSought /\ ~XOpen(GoalOffset) /\ ~YOpen(GoalOffset)
        => result = SidestepOriginal(GoalOffset)

\* C9 amended: when both axis attempts yield no move, the result is UP, else
\* DOWN, if the x-offset is nonzero and that tile is free; failing that
\* (x-offset zero, or both vertical tiles occupied) it is RIGHT, else LEFT,
\* if the y-offset is nonzero and that tile is free; else NONE.
C9_Amended ==
    GoalSought /\ ~XOpen(GoalOffset) /\ ~YOpen(GoalOffset)
        => result = SidestepAmended(GoalOffset)

\* both offsets nonzero, both axis attempts and both vertical sidesteps
\* blocked, and the horizontal sidestep is taken
C9_Witness ==
    /\ GoalSought
    /\ GoalOffset[1] # 0
    /\ GoalOffset[2] # 0
    /\ ~XOpen(GoalOffset)
    /\ Occupied(Up)
    /\ Occupied(Down)
    /\ result \in {"LEFT", "RIGHT"}

\* C10: in advanced mode with the pod not acquired and the player off the
\* target pod's tile, when a drive holds the tile toward the pod on every
\* axis with nonzero pod offset the tick returns what goal-seeking computes
\* for the snapshot, and target_pod_acquired stays false.
C10_FallThrough ==
    [][Returns /\ need_to_find_target_pod /\ ~target_pod_acquired
          /\ PodOffset # <<0, 0>> /\ ApproachBlocked
          => result' = GoalSeekingMove /\ ~target_pod_acquired']_vars

\* the approach was blocked and the move returned leads away from the pod
C10_Witness ==
    /\ Returned
    /\ need_to_find_target_pod
    /\ ~target_pod_acquired
    /\ PodOffset # <<0, 0>>
    /\ ApproachBlocked
    /\ result \in Directions
    /\ Norm2(OffsetTo(Dest(result), TargetPod)) > Norm2(PodOffset)

====
